---- MODULE Spec2Model ----
(***************************************************************************)
(* ClearTx: the account resolution of the transaction form.                *)
(*                                                                         *)
(* Text is a sequence of one-character strings, so that the scanner's      *)
(* regular expressions, toLowerCase, split, includes, endsWith and trim    *)
(* are computed character by character as the code computes them.          *)
(*                                                                         *)
(* State that no handler reads is left out: the success message, the        *)
(* highlighted and the removing row, and the filters of the list.          *)
(***************************************************************************)
EXTENDS Integers, Sequences, FiniteSets, TLC

\* ------------------------------------------------------------------ text

Uppers == <<"A","B","C","D","E","F","G","H","I","J","K","L","M","N","O","P","Q","R","S","T","U","V","W","X","Y","Z">>

Lowers == <<"a","b","c","d","e","f","g","h","i","j","k","l","m","n","o","p","q","r","s","t","u","v","w","x","y","z">>

Digits == {"0","1","2","3","4","5","6","7","8","9"}

LowerLetters == {Lowers[i] : i \in DOMAIN Lowers}

UpperLetters == {Uppers[i] : i \in DOMAIN Uppers}

\* \w of a JavaScript regular expression
WordChars == LowerLetters \cup UpperLetters \cup Digits \cup {"_"}

\* \s of a JavaScript regular expression, within the characters an <input> holds
SpaceChars == {" "}

\* the empty string ''; also null and undefined where the code only tests truthiness
Empty == <<>>

Min(S) == CHOOSE x \in S : \A y \in S : x <= y

Max(S) == CHOOSE x \in S : \A y \in S : x >= y

LowerChar(c) == IF c \in UpperLetters THEN Lowers[CHOOSE i \in DOMAIN Uppers : Uppers[i] = c] ELSE c

RECURSIVE toLowerCase(_)
\* String.prototype.toLowerCase
toLowerCase(s) == IF s = <<>> THEN <<>> ELSE <<LowerChar(Head(s))>> \o toLowerCase(Tail(s))

\* the literal lit stands in s at position i
LitAt(s, i, lit) == /\ i >= 1
                    /\ i + Len(lit) - 1 <= Len(s)
                    /\ \A k \in 1..Len(lit) : s[i + k - 1] = lit[k]

\* String.prototype.includes
includes(s, lit) == \E i \in 1..(Len(s) + 1) : LitAt(s, i, lit)

\* String.prototype.endsWith
endsWith(s, lit) == Len(lit) <= Len(s) /\ LitAt(s, Len(s) - Len(lit) + 1, lit)

\* String.prototype.slice(-4)
sliceLast4(s) == IF Len(s) <= 4 THEN s ELSE SubSeq(s, Len(s) - 3, Len(s))

\* String.prototype.trim
trim(s) ==
  LET keep == {i \in 1..Len(s) : s[i] \notin SpaceChars}
  IN  IF keep = {} THEN Empty ELSE SubSeq(s, Min(keep), Max(keep))

\* ------------------------------------------------- pattern library

\* the table read from its end
BankOrderLastFirst == <<"UNION", "CANARA", "BOB", "PNB", "YES", "KOTAK", "AXIS", "ICICI", "HDFC", "SBI">>

\* the order of Object.entries(BANK_PATTERNS)
BankOrder == <<"SBI", "HDFC", "ICICI", "AXIS", "KOTAK", "YES", "PNB", "BOB", "CANARA", "UNION">>

\* The brand part of each bank's pattern: its alternatives in order, each a
\* sequence of literals joined by \s*.
BrandAlts(bank) ==
  CASE bank = "SBI"    -> << << <<"s","b","i">> >>, << <<"s","t","a","t","e">>, <<"b","a","n","k">> >> >>
    [] bank = "HDFC"   -> << << <<"h","d","f","c">> >> >>
    [] bank = "ICICI"  -> << << <<"i","c","i","c","i">> >> >>
    [] bank = "AXIS"   -> << << <<"a","x","i","s">>, <<"b","a","n","k">> >>, << <<"a","x","i","s">> >> >>
    [] bank = "KOTAK"  -> << << <<"k","o","t","a","k">> >>, << <<"8","1","1">> >> >>
    [] bank = "YES"    -> << << <<"y","e","s">>, <<"b","a","n","k">> >>, << <<"y","e","s","b","a","n","k">> >> >>
    [] bank = "PNB"    -> << << <<"p","n","b">> >>, << <<"p","u","n","j","a","b">>, <<"n","a","t","i","o","n","a","l">> >> >>
    [] bank = "BOB"    -> << << <<"b","a","n","k">>, <<"o","f">>, <<"b","a","r","o","d","a">> >>, << <<"b","o","b">> >> >>
    [] bank = "CANARA" -> << << <<"c","a","n","a","r","a">> >> >>
    [] bank = "UNION"  -> << << <<"u","n","i","o","n">>, <<"b","a","n","k">> >>, << <<"u","b","i">> >> >>

\* whether the bank's pattern wraps its brand in a capturing group, which
\* makes the digits group 2 instead of group 1
BrandIsGroup(bank) == bank \notin {"HDFC", "ICICI", "CANARA"}

\* (?:a\/c|acct?|account|card|upi), the alternatives in the order the regular
\* expression tries them (acct? is greedy: acct before acc)
BankKeywords == << <<"a","/","c">>, <<"a","c","c","t">>, <<"a","c","c">>, <<"a","c","c","o","u","n","t">>, <<"c","a","r","d">>, <<"u","p","i">> >>

\* (?:a\/c|acct?|account|card|upi|vpa) of GENERIC_LAST4
GenericKeywords == Append(BankKeywords, <<"v","p","a">>)

\* [^\d]{0,20} of GENERIC_LAST4
GenericGap == 20

\* \*{0,6} and x{0,6} of GENERIC_LAST4
GenericMask == 6

\* Object.keys(HANDLE_MAP), in insertion order
HandleKeys == <<
  <<"o","k","h","d","f","c">>, <<"h","d","f","c">>, <<"h","d","f","c","b","a","n","k">>,
  <<"o","k","i","c","i","c","i">>, <<"i","c","i","c","i">>,
  <<"o","k","s","b","i">>, <<"s","b","i">>, <<"y","o","n","o">>,
  <<"o","k","a","x","i","s">>, <<"a","x","i","s">>, <<"a","x","i","s","b","a","n","k">>,
  <<"y","b","l">>, <<"y","e","s">>, <<"y","e","s","b","a","n","k">>,
  <<"k","o","t","a","k">>, <<"k","m","b">>, <<"o","k","k","o","t","a","k">>,
  <<"i","d","f","c">>, <<"i","d","f","c","b","a","n","k">>,
  <<"p","n","b">>,
  <<"b","o","b">>, <<"b","a","r","o","d","a","m","p","a","y">>,
  <<"c","a","n","a","r","a">>, <<"c","a","n","a","r","a","b","a","n","k">>,
  <<"u","b","i">>, <<"u","n","i","o","n","b","a","n","k">>,
  <<"f","e","d","e","r","a","l">>, <<"f","b","l">>,
  <<"p","a","y","t","m">>, <<"p","p","b">>,
  <<"a","i","r","t","e","l">>, <<"a","i","r","t","e","l","p","a","y","m","e","n","t","s">> >>

\* the value HANDLE_MAP holds for each key of HandleKeys, in the same order
HandleNames == <<
  "HDFC", "HDFC", "HDFC", "ICICI", "ICICI", "SBI", "SBI", "SBI", "AXIS", "AXIS", "AXIS",
  "YES", "YES", "YES", "KOTAK", "KOTAK", "KOTAK", "IDFC", "IDFC", "PNB", "BOB", "BOB",
  "CANARA", "CANARA", "UNION", "UNION", "FEDERAL", "FEDERAL", "PAYTM", "PAYTM",
  "AIRTEL", "AIRTEL" >>

\* the canonical bank names, as text
BankText(name) ==
  CASE name = "HDFC"    -> <<"H","D","F","C">>
    [] name = "ICICI"   -> <<"I","C","I","C","I">>
    [] name = "SBI"     -> <<"S","B","I">>
    [] name = "AXIS"    -> <<"A","X","I","S">>
    [] name = "YES"     -> <<"Y","E","S">>
    [] name = "KOTAK"   -> <<"K","O","T","A","K">>
    [] name = "IDFC"    -> <<"I","D","F","C">>
    [] name = "PNB"     -> <<"P","N","B">>
    [] name = "BOB"     -> <<"B","O","B">>
    [] name = "CANARA"  -> <<"C","A","N","A","R","A">>
    [] name = "UNION"   -> <<"U","N","I","O","N">>
    [] name = "FEDERAL" -> <<"F","E","D","E","R","A","L">>
    [] name = "PAYTM"   -> <<"P","A","Y","T","M">>
    [] name = "AIRTEL"  -> <<"A","I","R","T","E","L">>
    [] name = "UNKNOWN" -> <<"U","N","K","N","O","W","N">>

\* ------------------------------------------------------ text scanner

\* \d{4} stands at position d
Digits4At(s, d) == /\ d >= 1
                   /\ d + 3 <= Len(s)
                   /\ \A k \in 0..3 : s[d + k] \in Digits

\* the length of the run of character c that starts at position q
RunLen(s, q, c) ==
  LET stop == {k \in q..Len(s) : s[k] # c}
  IN  IF stop = {} THEN Len(s) - q + 1 ELSE Min(stop) - q

\* (?:\*+|x+)?(\d{4}) anchored at q, on lower-cased text: the position of the
\* captured digits, or 0. The greedy runs give back characters one at a time.
MaskedDigitsAt(s, q) ==
  LET stars == {m \in 1..RunLen(s, q, "*") : Digits4At(s, q + m)}
      exes  == {m \in 1..RunLen(s, q, "x") : Digits4At(s, q + m)}
  IN  IF stars # {} THEN q + Max(stars)
      ELSE IF exes # {} THEN q + Max(exes)
      ELSE IF Digits4At(s, q) THEN q
      ELSE 0

\* .*?(?:\*+|x+)?(\d{4}) from position l: the lazy .*? stops at the first
\* position where the rest matches. The position of the captured digits, or 0.
LazyDigits(s, l) ==
  LET qs == {q \in l..Len(s) : MaskedDigitsAt(s, q) # 0}
  IN  IF qs = {} THEN 0 ELSE MaskedDigitsAt(s, Min(qs))

\* .*?(?:a\/c|acct?|account|card|upi).*?(?:\*+|x+)?(\d{4}) from position j: the
\* first keyword position, and at it the first alternative, after which the
\* rest matches. The position of the captured digits, or 0.
KeywordThenDigits(s, j) ==
  LET ok(k, w) == LitAt(s, k, BankKeywords[w]) /\ LazyDigits(s, k + Len(BankKeywords[w])) # 0
      ks == {k \in j..Len(s) : \E w \in DOMAIN BankKeywords : ok(k, w)}
  IN  IF ks = {} THEN 0
      ELSE LET k == Min(ks)
               w == Min({v \in DOMAIN BankKeywords : ok(k, v)})
           IN  LazyDigits(s, k + Len(BankKeywords[w]))

RECURSIVE MatchPieces(_, _, _)
\* literals joined by \s*, anchored at i: the position after the match, or 0
MatchPieces(s, i, pieces) ==
  IF ~LitAt(s, i, Head(pieces)) THEN 0
  ELSE LET j == i + Len(Head(pieces))
       IN  IF Len(pieces) = 1 THEN j
           ELSE MatchPieces(s, j + RunLen(s, j, " "), Tail(pieces))

NoMatch == [start |-> 0, brandEnd |-> 0, digits |-> 0]

\* text.match(BANK_PATTERNS[bank]) on lower-cased text (the i flag): the
\* leftmost start, at it the first brand alternative, for which the whole
\* pattern matches
BankMatch(bank, s) ==
  LET alts == BrandAlts(bank)
      ok(i, a) == LET j == MatchPieces(s, i, alts[a])
                  IN  j # 0 /\ KeywordThenDigits(s, j) # 0
      starts == {i \in 1..Len(s) : \E a \in DOMAIN alts : ok(i, a)}
  IN  IF starts = {} THEN NoMatch
      ELSE LET i == Min(starts)
               a == Min({b \in DOMAIN alts : ok(i, b)})
               j == MatchPieces(s, i, alts[a])
           IN  [start |-> i, brandEnd |-> j, digits |-> KeywordThenDigits(s, j)]

\* text.match(GENERIC_LAST4): the position of the captured digits, or 0
GenericMatch(s) ==
  LET nonDigits(a, b) == \A k \in a..b : s[k] \notin Digits
      maskOf(a, b, c) == \A k \in a..b : s[k] = c
      rest(l) == {d \in l..(l + GenericGap + GenericMask) :
                    /\ Digits4At(s, d)
                    /\ \E m \in 0..GenericMask :
                         /\ d - m >= l
                         /\ d - m - l <= GenericGap
                         /\ nonDigits(l, d - m - 1)
                         /\ (maskOf(d - m, d - 1, "*") \/ maskOf(d - m, d - 1, "x"))}
      ok(k, w) == LitAt(s, k, GenericKeywords[w]) /\ rest(k + Len(GenericKeywords[w])) # {}
      ks == {k \in 1..Len(s) : \E w \in DOMAIN GenericKeywords : ok(k, w)}
  IN  IF ks = {} THEN 0
      ELSE LET k == Min(ks)
               w == Min({v \in DOMAIN GenericKeywords : ok(k, v)})
           IN  Min(rest(k + Len(GenericKeywords[w])))

\* the result null of detectSourceAccountFromText
NoHit == [bank |-> "null", last4 |-> Empty]

\* (m[1] || '').slice(-4): the first group alone, without m[2]
Last4OfFirstGroup(bank, text, m) ==
  sliceLast4(IF BrandIsGroup(bank) THEN SubSeq(text, m.start, m.brandEnd - 1)
             ELSE SubSeq(text, m.digits, m.digits + 3))

\* (m[2] || m[1] || '').slice(-4) || null, where m[1] is the brand when the
\* pattern wraps it in a group and the digits otherwise
Last4Of(bank, text, m) ==
  LET digits == SubSeq(text, m.digits, m.digits + 3)
      m1 == IF BrandIsGroup(bank) THEN SubSeq(text, m.start, m.brandEnd - 1) ELSE digits
      m2 == IF BrandIsGroup(bank) THEN digits ELSE Empty
  IN  sliceLast4(IF m2 # Empty THEN m2 ELSE m1)

\* the generic pattern alone, without the bank table before it
detectSourceAccountGenericOnly(text) ==
  IF text = Empty THEN NoHit
  ELSE LET g == GenericMatch(toLowerCase(text))
       IN  IF g # 0 THEN [bank |-> "UNKNOWN", last4 |-> SubSeq(text, g, g + 3)] ELSE NoHit

detectSourceAccountFromText(text) ==
  IF text = Empty THEN NoHit
  ELSE LET low == toLowerCase(text)
           hits == {b \in DOMAIN BankOrder : BankMatch(BankOrder[b], low) # NoMatch}
           g == GenericMatch(low)
       IN  IF hits # {}
           THEN LET bank == BankOrder[Min(hits)]
                IN  [bank |-> bank, last4 |-> Last4Of(bank, text, BankMatch(bank, low))]
           ELSE IF g # 0 THEN [bank |-> "UNKNOWN", last4 |-> SubSeq(text, g, g + 3)]
           ELSE NoHit

\* [A-Za-z0-9:_-] of extractHashtags
TagChars == LowerLetters \cup UpperLetters \cup Digits \cup {":", "_", "-"}

\* {2,32} of extractHashtags
MinTag == 2

MaxTag == 32

\* the length of the run of [A-Za-z0-9:_-] that starts at position q
TagRun(s, q) ==
  LET stop == {k \in q..Len(s) : s[k] \notin TagChars}
  IN  IF stop = {} THEN Len(s) - q + 1 ELSE Min(stop) - q

RECURSIVE ExecFromCaseKept(_, _, _)
\* the loop with tags.add(m[1]), without toLowerCase
ExecFromCaseKept(text, p, tags) ==
  LET at == {i \in p..Len(text) : text[i] = "#" /\ TagRun(text, i + 1) >= MinTag}
  IN  IF at = {} THEN tags
      ELSE LET i == Min(at)
               n == Min({TagRun(text, i + 1), MaxTag})
               tag == SubSeq(text, i + 1, i + n)
           IN  ExecFromCaseKept(text, i + n + 1,
                                IF \E k \in DOMAIN tags : tags[k] = tag THEN tags ELSE Append(tags, tag))

RECURSIVE ExecFrom(_, _, _)
\* the loop while ((m = re.exec(text))) from lastIndex p - 1, with the tags
\* added so far: the next '#' that at least MinTag characters of the class
\* follow, the greedy run cut at MaxTag, tags.add of its lower case
ExecFrom(text, p, tags) ==
  LET at == {i \in p..Len(text) : text[i] = "#" /\ TagRun(text, i + 1) >= MinTag}
  IN  IF at = {} THEN tags
      ELSE LET i == Min(at)
               n == Min({TagRun(text, i + 1), MaxTag})
               tag == toLowerCase(SubSeq(text, i + 1, i + n))
           IN  ExecFrom(text, i + n + 1,
                        IF \E k \in DOMAIN tags : tags[k] = tag THEN tags ELSE Append(tags, tag))

\* Array.from(tags): a Set keeps insertion order
extractHashtags(text) == IF text = Empty THEN <<>> ELSE ExecFrom(text, 1, <<>>)

\* the result null of detectBankFromUpiText
NoBank == [code |-> Empty, name |-> "null"]

AlnumLower == LowerLetters \cup Digits

\* lower.split(/[^a-z0-9]+/).filter(Boolean): the maximal runs of [a-z0-9]
Tokens(low) ==
  LET first == {i \in 1..Len(low) : low[i] \in AlnumLower /\ (i = 1 \/ low[i - 1] \notin AlnumLower)}
      endOf(i) == Min({k \in i..Len(low) : k = Len(low) \/ low[k + 1] \notin AlnumLower})
      nth(n) == CHOOSE i \in first : Cardinality({j \in first : j <= i}) = n
  IN  [n \in 1..Cardinality(first) |-> SubSeq(low, nth(n), endOf(nth(n)))]

\* the index of the own key t of HANDLE_MAP, or 0 when t is no own key
HandleIndex(t) ==
  LET ks == {k \in DOMAIN HandleKeys : HandleKeys[k] = t}
  IN  IF ks = {} THEN 0 ELSE Min(ks)

\* HANDLE_MAP is an object literal, so a lookup also reaches the properties of
\* Object.prototype. Of their names only this one is a token of [a-z0-9]+.
PrototypeKeys == {<<"c","o","n","s","t","r","u","c","t","o","r">>}

\* HANDLE_MAP[t]: the canonical name of an own key, the inherited function
\* (truthy) of a prototype key, undefined otherwise
HandleLookup(t) ==
  IF HandleIndex(t) # 0 THEN HandleNames[HandleIndex(t)]
  ELSE IF t \in PrototypeKeys THEN "function Object"
  ELSE "undefined"

detectBankFromUpiText(text) ==
  IF text = Empty THEN NoBank
  ELSE LET low == toLowerCase(text)
           tokens == Tokens(low)
           whole == {n \in DOMAIN tokens : HandleLookup(tokens[n]) # "undefined"}
           part == {k \in DOMAIN HandleKeys :
                      includes(low, <<"@">> \o HandleKeys[k]) \/ includes(low, HandleKeys[k])}
       IN  IF whole # {}
           THEN LET t == tokens[Min(whole)]
                IN  [code |-> t, name |-> HandleLookup(t)]
           ELSE IF part # {}
           THEN [code |-> HandleKeys[Min(part)], name |-> HandleNames[Min(part)]]
           ELSE NoBank

\* [\w.-] and [a-z0-9.-] of detectUpiHandle
LocalChars == WordChars \cup {".", "-"}

DomainChars == LowerLetters \cup Digits \cup {".", "-"}

\* \b at the gap before position i (between i - 1 and i)
WordBoundary(s, i) ==
  LET before == i > 1 /\ s[i - 1] \in WordChars
      after == i <= Len(s) /\ s[i] \in WordChars
  IN  before # after

\* text.toLowerCase().match(/\b[\w.-]+@[a-z0-9.-]+\b/): m[0], or Empty for null.
\* Leftmost start; both runs are greedy and give back characters one at a time.
detectUpiHandle(text) ==
  IF text = Empty THEN Empty
  ELSE LET low == toLowerCase(text)
           all(a, b, S) == \A k \in a..b : low[k] \in S
           ends(i) == {e \in (i + 2)..Len(low) :
                         \E at \in (i + 1)..(e - 1) :
                           /\ low[at] = "@"
                           /\ all(i, at - 1, LocalChars)
                           /\ all(at + 1, e, DomainChars)
                           /\ WordBoundary(low, e + 1)}
           starts == {i \in 1..Len(low) : WordBoundary(low, i) /\ ends(i) # {}}
       IN  IF starts = {} THEN Empty
           ELSE SubSeq(low, Min(starts), Max(ends(Min(starts))))

\* ---------------------------------------------------- storage, values

DigitChars == <<"0","1","2","3","4","5","6","7","8","9">>

RECURSIVE ToText(_)
\* String(n) and Number.prototype.toString, for a natural number
ToText(n) == IF n < 10 THEN <<DigitChars[n + 1]>> ELSE ToText(n \div 10) \o <<DigitChars[(n % 10) + 1]>>

RECURSIVE DigitsValue(_)
DigitsValue(ds) ==
  IF ds = <<>> THEN 0
  ELSE 10 * DigitsValue(SubSeq(ds, 1, Len(ds) - 1))
       + (CHOOSE v \in 0..9 : DigitChars[v + 1] = ds[Len(ds)])

\* A JavaScript number: a decimal value / 10^scale with no trailing zero in
\* the fraction, an infinity, NaN, or the null JSON leaves of what is not finite
Finite(value, scale) == [kind |-> "number", value |-> value, scale |-> scale]

Infinity == [kind |-> "Infinity", value |-> 1, scale |-> 0]

NegInfinity == [kind |-> "-Infinity", value |-> 0 - 1, scale |-> 0]

NaN == [kind |-> "NaN", value |-> 0, scale |-> 0]

Null == [kind |-> "null", value |-> 0, scale |-> 0]

InfinityText == <<"I","n","f","i","n","i","t","y">>

RECURSIVE StripZeros(_)
StripZeros(ds) ==
  IF ds # <<>> /\ ds[Len(ds)] = "0" THEN StripZeros(SubSeq(ds, 1, Len(ds) - 1)) ELSE ds

\* a decimal literal of whole digits and fraction digits (trailing zeros
\* dropped), negative or not
NumberOfParts(negative, whole, fraction) ==
  Finite(IF negative THEN 0 - DigitsValue(whole \o fraction) ELSE DigitsValue(whole \o fraction),
         Len(fraction))

\* a decimal literal whose point stands at position point (past the end when
\* there is none)
NumberOfDecimal(negative, body, point) ==
  NumberOfParts(negative, SubSeq(body, 1, point - 1), StripZeros(SubSeq(body, point + 1, Len(body))))

\* digits with at most one point, and at least one digit
IsDecimal(body) ==
  /\ Cardinality({k \in DOMAIN body : body[k] = "."}) <= 1
  /\ \E k \in DOMAIN body : body[k] \in Digits
  /\ \A k \in DOMAIN body : body[k] \in Digits \cup {"."}

\* the text after its sign
NumberOfUnsigned(negative, body) ==
  IF body = InfinityText THEN (IF negative THEN NegInfinity ELSE Infinity)
  ELSE IF ~IsDecimal(body) THEN NaN
  ELSE NumberOfDecimal(negative, body, Min({k \in DOMAIN body : body[k] = "."} \cup {Len(body) + 1}))

NumberOfTrimmed(t) ==
  IF t = Empty THEN Finite(0, 0)
  ELSE NumberOfUnsigned(t[1] = "-", IF t[1] \in {"-", "+"} THEN Tail(t) ELSE t)

\* Number(text), for text without exponent or radix prefix: white space is
\* trimmed, the empty string is 0, a signed decimal literal is its value, a
\* signed "Infinity" is infinite, anything else NaN
Number(text) == NumberOfTrimmed(trim(text))

\* num > 0
GreaterThanZero(num) == num.kind = "Infinity" \/ (num.kind = "number" /\ num.value > 0)

RECURSIVE Zeros(_)
Zeros(n) == IF n <= 0 THEN <<>> ELSE <<"0">> \o Zeros(n - 1)

\* the digits of a magnitude with the point scale places from the right,
\* padded with zeros so that a digit stands before the point
PointedText(padded, scale) ==
  IF scale = 0 THEN padded
  ELSE SubSeq(padded, 1, Len(padded) - scale) \o <<".">> \o SubSeq(padded, Len(padded) - scale + 1, Len(padded))

DecimalText(digits, scale) == PointedText(Zeros(scale + 1 - Len(digits)) \o digits, scale)

\* String(num), for the magnitudes JavaScript writes without an exponent
String(num) ==
  IF num.kind = "number"
  THEN (IF num.value < 0 THEN <<"-">> \o DecimalText(ToText(0 - num.value), num.scale)
        ELSE DecimalText(ToText(num.value), num.scale))
  ELSE IF num.kind = "Infinity" THEN InfinityText
  ELSE IF num.kind = "-Infinity" THEN <<"-">> \o InfinityText
  ELSE IF num.kind = "NaN" THEN <<"N","a","N">>
  ELSE <<"n","u","l","l">>

\* JSON.parse(JSON.stringify(num)): what is not finite is written as null
JsonNumber(num) == IF num.kind = "number" THEN num ELSE Null

\* JSON.parse(JSON.stringify(transactions))
JsonTransactions(transactions) ==
  [i \in DOMAIN transactions |-> [transactions[i] EXCEPT !.amount = JsonNumber(@)]]

\* generateId(prefix): the random part and the clock are a counter of the ids
\* generated so far, n being the number of this one
generateId(prefix, n) == prefix \o <<"_">> \o ToText(n)

\* new Date().toISOString().slice(0, 16): the clock is one instant
Now == "2024-01-01T10:00"

\* new Date(date).toISOString()
toISOString(date) == IF date = "2024-01-01T10:00" THEN "2024-01-01T10:00:00.000Z" ELSE "Invalid Date"

\* new Date(tx.date).toISOString().slice(0, 16)
toLocalInput(iso) == IF iso = "2024-01-01T10:00:00.000Z" THEN "2024-01-01T10:00" ELSE ""

\* ------------------------------------------------------------ inputs

NoteRegular == <<"J","u","s","t"," ","a"," ","r","e","g","u","l","a","r"," ","n","o","t","e">>

NoteUnknownBank == <<"u","s","e","r","@","u","n","k","n","o","w","n","b","a","n","k">>

NoteHdfc == <<"P","a","y","m","e","n","t"," ","v","i","a"," ","u","s","e","r","@","o","k","h","d","f","c">>

NoteAxis == <<"u","s","e","r","@","o","k","a","x","i","s">>

NoteSuffixOnly == <<"h","d","f","c"," ","a","/","c"," ","1","1","1","1">>

NoteHdfc2222 == <<"u","s","e","r","@","o","k","h","d","f","c"," ","a","/","c"," ","2","2","2","2">>

NoteAxis1111 == <<"u","s","e","r","@","o","k","a","x","i","s"," ","u","p","i"," ","1","1","1","1">>

\* what the user types into the note field
NoteInputs == {Empty, NoteRegular, NoteUnknownBank, NoteHdfc, NoteAxis, NoteSuffixOnly, NoteHdfc2222, NoteAxis1111}

\* what the user types into the amount field
AmountInputs ==
  {Empty, <<"1","0","0">>, <<"0",".","5">>, <<"0">>, <<"-","5">>, <<"a","b","c">>, InfinityText}

\* what the user sets the date field to
DateInputs == {"", Now}

NickHdfcSavings == <<"H","D","F","C"," ","S","a","v","i","n","g","s">>

NickHdfcCurrent == <<"H","d","f","c"," ","C","u","r","r","e","n","t">>

NickIcici == <<"I","C","I","C","I"," ","S","a","v","i","n","g","s">>

\* what the user types into the nickname field of the accounts form
NicknameInputs == {Empty, <<" ">>, NickHdfcSavings, NickHdfcCurrent, NickIcici}

Masked1111 == <<"*","*","*","*","1","1","1","1">>

Masked2222 == <<"*","*","*","*","2","2","2","2">>

\* what the user types into the masked number field of the accounts form
MaskedInputs ==
  {Empty, Masked1111, Masked2222, <<"1","1","1","1">>, <<"*","*","*","*","*","1","1","1","1">>}

\* ids generated in one run
MaxIds == 3

\* delayed removals pending at once on a page
MaxTimers == 1

\* user events and timeouts in one run
MaxSteps == 9

\* accounts the user entered in earlier sessions
UserAccountA == [id |-> <<"a","c","c","t","_","a">>, nickname |-> NickHdfcSavings, maskedNumber |-> Masked1111]

UserAccountB == [id |-> <<"a","c","c","t","_","b">>, nickname |-> NickHdfcCurrent, maskedNumber |-> Masked2222]

\* the account collections the store can hold when the application starts
StoredAtStart == {<<>>, <<UserAccountA>>, <<UserAccountA, UserAccountB>>}

\* ---------------------------------------------- inputs of the scanner

UpperChar(c) == IF c \in LowerLetters THEN Uppers[CHOOSE i \in DOMAIN Lowers : Lowers[i] = c] ELSE c

RECURSIVE toUpperCase(_)
toUpperCase(s) == IF s = <<>> THEN <<>> ELSE <<UpperChar(Head(s))>> \o toUpperCase(Tail(s))

RECURSIVE Join(_, _)
\* the pieces with the separator between them
Join(pieces, sep) ==
  IF pieces = <<>> THEN <<>>
  ELSE IF Len(pieces) = 1 THEN Head(pieces)
  ELSE Head(pieces) \o sep \o Join(Tail(pieces), sep)

Banks == {BankOrder[b] : b \in DOMAIN BankOrder}

\* the ways a user writes a bank's brand: every alternative of its pattern,
\* with or without a blank between the words, in lower or upper case
BrandTexts(bank) ==
  LET alts == BrandAlts(bank)
      lower == {Join(alts[a], sep) : a \in DOMAIN alts, sep \in {Empty, <<" ">>}}
  IN  lower \cup {toUpperCase(t) : t \in lower}

\* the first way to write a bank's brand
BrandText(bank) == Join(BrandAlts(bank)[1], <<" ">>)

Suffix1234 == <<"1","2","3","4">>

Suffix5678 == <<"5","6","7","8">>

\* what stands around brand, keyword and suffix in a note that names a bank
BankLayouts == {
  [lead |-> Empty, g1 |-> <<" ">>, g2 |-> <<" ">>, mask |-> Empty, tail |-> Empty],
  [lead |-> <<"P","a","i","d"," ","v","i","a"," ">>, g1 |-> <<" ">>, g2 |-> <<" ">>, mask |-> <<"*","*","*","*">>, tail |-> Empty],
  [lead |-> Empty, g1 |-> <<" ","s","a","v","i","n","g","s"," ">>, g2 |-> <<" ","n","o","."," ">>, mask |-> <<"x","x">>, tail |-> <<" ","t","h","a","n","k","s">>],
  [lead |-> Empty, g1 |-> Empty, g2 |-> Empty, mask |-> <<"X","X","X","X">>, tail |-> <<".">>] }

\* A probe of the scanner: a text, how it was composed (history), the call
\* made on it and what the call returned.
ProbeOf(kind, text, bank, other, suffix, gap) ==
  [kind |-> kind, text |-> text, bank |-> bank, other |-> other, suffix |-> suffix, gap |-> gap,
   called |-> "none", account |-> NoHit, matching |-> {}, upiBank |-> NoBank,
   handle |-> Empty, tags |-> <<>>, again |-> <<>>, rejoined |-> <<>>]

NoProbe == ProbeOf("plain", Empty, "none", "none", Empty, 0)

\* brand, keyword, suffix: the notes that name one bank
BankNotesOf(bank) ==
  {ProbeOf("bank", l.lead \o brand \o l.g1 \o BankKeywords[w] \o l.g2 \o l.mask \o Suffix1234 \o l.tail,
           bank, bank, Suffix1234, Len(l.g2)) :
     brand \in BrandTexts(bank), w \in DOMAIN BankKeywords, l \in BankLayouts}

BankNotes == UNION {BankNotesOf(bank) : bank \in Banks}

\* the notes that name two banks, in either order: one keyword and suffix
\* after both brands, or a keyword and a suffix after each
TwoBankNotes ==
  {ProbeOf("two", BrandText(b1) \o <<" ">> \o BrandText(b2) \o <<" ","c","a","r","d"," ">> \o Suffix1234,
           b1, b2, Suffix1234, 1) : b1 \in Banks, b2 \in Banks}
  \cup
  {ProbeOf("two", BrandText(b1) \o <<" ","a","/","c"," ">> \o Suffix1234 \o <<" ">> \o BrandText(b2) \o <<" ","u","p","i"," ">> \o Suffix5678,
           b1, b2, Suffix1234, 1) : b1 \in Banks, b2 \in Banks}

\* the text between keyword and suffix in a note that names no bank: one
\* character, GenericGap characters, and one more than that
GenericGaps == {<<" ">>, <<" ","n","o",":"," ">>, <<" ","e","n","d","i","n","g"," ","w","i","t","h"," ","n","u","m","b","e","r"," ">>, <<" ","e","n","d","i","n","g"," ","w","i","t","h"," ","n","u","m","b","e","r","s"," ">>}

GenericMasks == {Empty, <<"*","*","*","*">>, <<"x","x","x","x","x","x">>}

\* keyword, gap, mask, suffix: the notes that name no bank
GenericNotes ==
  {ProbeOf("generic", lead \o GenericKeywords[w] \o gap \o mask \o Suffix1234,
           "none", "none", Suffix1234, Len(gap)) :
     lead \in {Empty, <<"P","a","i","d"," ","b","y"," ">>}, w \in DOMAIN GenericKeywords, gap \in GenericGaps, mask \in GenericMasks}

\* the notes that are no composition of brand, keyword and suffix
PlainNotes ==
  {ProbeOf("plain", text, "none", "none", Empty, 0) :
     text \in NoteInputs \cup {
       <<"R","e","g","u","l","a","r"," ","t","r","a","n","s","a","c","t","i","o","n"," ","n","o","t","e">>,
       <<"c","o","n","s","t","r","u","c","t","o","r">>,
       <<"P","a","i","d"," ","a","t"," ","t","h","e"," ","C","o","n","s","t","r","u","c","t","o","r"," ","s","t","o","r","e">>,
       <<"T","r","a","n","s","a","c","t","i","o","n"," ","v","i","a"," ","9","8","7","6","5","4","3","2","1","0","@","y","b","l">>,
       <<"P","a","y","m","e","n","t"," ","t","o"," ","u","s","e","r",".","n","a","m","e","@","a","x","i","s">>,
       <<"1","2","3","4">>,
       <<"m","y"," ","c","a","r","d">>,
       <<"m","y","h","d","f","c","p","a","y"," ","s","b","i">>,
       <<"s","h","o","p","@","o","k","h","d","f","c","b","a","n","k">>,
       <<"C","o","n","s","t","r","u","c","t","o","r"," ","f","e","e"," ","v","i","a"," ","s","h","o","p","@","y","b","l">> }}

\* one character more than a tag holds
LongWord == <<"#">> \o [i \in 1..(MaxTag + 1) |-> "Q"]

TagWords == {<<"#","F","o","o","d">>, <<"#","f","o","o","d">>, <<"#","F","O","O","D">>, <<"#","a">>, <<"l","u","n","c","h">>, <<"#","x","-","y",":","Z","_","1">>, <<"#">>, LongWord}

\* one or two words, with or without a blank between them
HashtagNotes ==
  {ProbeOf("tags", text, "none", "none", Empty, 0) :
     text \in TagWords \cup {<<"L","u","n","c","h"," ","p","a","y","m","e","n","t"," ","#","f","o","o","d"," ","#","d","a","i","l","y"," ","#","e","x","p","e","n","s","e">>}
              \cup {w1 \o sep \o w2 : w1 \in TagWords, w2 \in TagWords, sep \in {Empty, <<" ">>}}}

\* the texts handed to the scanner
Probes == BankNotes \cup TwoBankNotes \cup GenericNotes \cup PlainNotes \cup HashtagNotes

\* ------------------------------------------------------------- state

VARIABLES
  page,          \* the page the router shows: "transactions" or "accounts"
  localStorage,  \* [accounts, transactions]: the two stored collections
  idCount,       \* ids generated so far
  txPage,        \* the state of the mounted TransactionsPage
  acctPage,      \* the state of the mounted AccountsPage
  last,          \* history: the latest submission of the transaction form
  steps,         \* history: the user events and timeouts so far
  scanned,       \* the scanner results of the texts the forms can hold
  probe,         \* a text handed to the scanner on its own, and what came back
  pm             \* the pluginManager singleton and the calls of its initialize

vars == <<page, localStorage, idCount, txPage, acctPage, last, steps, scanned, probe, pm>>

\* one more user event or timeout, while the run may go on; the scanner is a
\* pure function, so its results stay
Tick == steps < MaxSteps /\ steps' = steps + 1 /\ scanned' = scanned /\ probe' = probe /\ pm' = pm

\* The three scanner results of every text the forms can hold, computed once:
\* <<text, detectUpiHandle, detectSourceAccountFromText, detectBankFromUpiText>>
ScanTable ==
  {<<n, detectUpiHandle(n), detectSourceAccountFromText(n), detectBankFromUpiText(n)>> :
     n \in NoteInputs}

Scan(text) == CHOOSE p \in scanned : p[1] = text

UpiHandleOf(text) == Scan(text)[2]

SourceAccountOf(text) == Scan(text)[3]

BankFromUpiOf(text) == Scan(text)[4]

\* error === null
NoError == [msg |-> "null", bank |-> Empty]

ErrRequired == [msg |-> "Please fill in all required fields", bank |-> Empty]

ErrNoUpi == [msg |-> "UPI ID not found in reference", bank |-> Empty]

ErrNoAccount == [msg |-> "Could not auto-detect account from UPI reference", bank |-> Empty]

NoticePlaceholder(bank) == [msg |-> "Created placeholder account for", bank |-> bank]

\* autoDetected === null
NoAuto == [bank |-> "null", last4 |-> Empty]

UnlinkedPrefix == <<"U","n","l","i","n","k","e","d"," ","-"," ">>

PlaceholderMasked == <<"*","*","*","*","0","0","0","0">>

AcctPrefix == <<"a","c","c","t">>

TxnPrefix == <<"t","x","n">>

\* the useState initial values of TransactionsPage, then its mount effect
\* (setAccounts(getAccounts()))
TxMounted(ls) ==
  [accounts |-> ls.accounts, transactions |-> ls.transactions,
   amount |-> Empty, date |-> Now, note |-> Empty, accountId |-> Empty,
   autoDetected |-> NoAuto, bankFromUpi |-> Empty,
   editingId |-> Empty, error |-> NoError, timers |-> <<>>]

\* a page that is not shown holds no state
TxUnmounted == TxMounted([accounts |-> <<>>, transactions |-> <<>>])

NoSubmit == [op |-> "other", outcome |-> "none", resolved |-> Empty, placeholder |-> FALSE,
             pre |-> TxUnmounted]

\* ------------------------------------------------ TransactionsPage

isValidAmount(amount) ==
  LET num == Number(amount)
  IN  trim(amount) # Empty /\ num.kind # "NaN" /\ GreaterThanZero(num)

\* a form that takes no submission while an error is shown
canSubmitOnceOnly(st) == isValidAmount(st.amount) /\ st.date # "" /\ st.error = NoError

canSubmit(st) == isValidAmount(st.amount) /\ st.date # ""

resetForm(st) ==
  [st EXCEPT !.amount = Empty, !.date = Now, !.note = Empty, !.accountId = Empty,
             !.editingId = Empty, !.error = NoError]

\* accounts.find((a) => a.maskedNumber.endsWith(last4)): the index, or 0
FindBySuffix(accounts, last4) ==
  LET hits == {a \in DOMAIN accounts : endsWith(accounts[a].maskedNumber, last4)}
  IN  IF hits = {} THEN 0 ELSE Min(hits)

\* accounts.filter((a) => a.nickname.toLowerCase().includes(bank.toLowerCase())):
\* the indices
BankMatches(accounts, bank) ==
  {a \in DOMAIN accounts : includes(toLowerCase(accounts[a].nickname), toLowerCase(bank))}

\* the auto-detect effect on [note, accounts]
AutoDetect(st) ==
  IF st.note = Empty
  THEN [st EXCEPT !.autoDetected = NoAuto, !.bankFromUpi = Empty]
  ELSE LET b == BankFromUpiOf(st.note)
           hit == SourceAccountOf(st.note)
           a == IF hit.last4 # Empty THEN FindBySuffix(st.accounts, hit.last4) ELSE 0
       IN  [st EXCEPT !.bankFromUpi = IF b = NoBank THEN Empty ELSE BankText(b.name),
                      !.accountId = IF a # 0 /\ @ = Empty THEN st.accounts[a].id ELSE @,
                      !.autoDetected = IF a # 0 THEN [bank |-> hit.bank, last4 |-> hit.last4]
                                       ELSE NoAuto]

\* an effect that adds the placeholder as soon as the bank is detected
RunEffectsAddingPlaceholder(old, new) ==
  LET st == AutoDetect(new)
  IN  IF st.bankFromUpi # Empty /\ BankMatches(st.accounts, st.bankFromUpi) = {}
      THEN [st EXCEPT !.accounts = Append(@, [id |-> AcctPrefix,
                                              nickname |-> UnlinkedPrefix \o st.bankFromUpi,
                                              maskedNumber |-> PlaceholderMasked])]
      ELSE st

\* a write of the accounts that does not reach the storage
saveAccountsSkipped(ls, accounts) == ls

\* saveAccounts(accounts): localStorage.setItem(ACCOUNTS_KEY, ...)
saveAccounts(ls, accounts) == [ls EXCEPT !.accounts = accounts]

\* the effects React runs after a handler, before the next event: the
\* auto-detect effect when note or accounts changed
RunEffects(old, new) ==
  IF new.note # old.note \/ new.accounts # old.accounts THEN AutoDetect(new) ELSE new

\* the effect on [transactions]: saveTransactions(transactions)
PersistTransactions(ls, old, new) ==
  IF new.transactions # old.transactions
  THEN [ls EXCEPT !.transactions = JsonTransactions(new.transactions)]
  ELSE ls

\* a resolver that ignores the account id the form holds
PreSelectedIgnored(st) == Empty

\* let resolvedAccountId = accountId: the account id the form holds is taken
\* before any detection
PreSelected(st) == st.accountId

\* a resolver that makes a placeholder whenever the bank match is not unique
NeedsPlaceholderUnlessOne(matches) == Cardinality(matches) # 1

\* matches.length === 0: the detected bank needs a placeholder account
NeedsPlaceholder(matches) == matches = {}

\* a submission that goes on without a resolved account
UnresolvedNever(id) == FALSE

\* if (!resolvedAccountId) { setError(...); return }
Unresolved(id) == id = Empty

\* handleSubmit, lines 72-108: the account id the submission resolves to
\* (Empty when none), with the accounts and the error it leaves. newId is the
\* id generateId('acct') gives.
ResolveAccountId(st, newId) ==
  LET upi == UpiHandleOf(st.note)
      hit == SourceAccountOf(st.note)
      a == IF hit.last4 # Empty THEN FindBySuffix(st.accounts, hit.last4) ELSE 0
      bySuffix == IF a # 0 THEN st.accounts[a].id ELSE Empty
      matches == BankMatches(st.accounts, st.bankFromUpi)
      placeholderAccount == [id |-> newId, nickname |-> UnlinkedPrefix \o st.bankFromUpi,
                             maskedNumber |-> PlaceholderMasked]
      same(id) == [resolved |-> id, accounts |-> st.accounts, error |-> st.error, placeholder |-> FALSE]
  IN  IF PreSelected(st) # Empty THEN same(PreSelected(st))
      ELSE IF upi = Empty THEN [same(Empty) EXCEPT !.error = ErrNoUpi]
      ELSE IF bySuffix # Empty THEN same(bySuffix)
      ELSE IF st.bankFromUpi # Empty /\ Cardinality(matches) = 1
           THEN same(st.accounts[CHOOSE m \in matches : TRUE].id)
      ELSE IF st.bankFromUpi # Empty /\ NeedsPlaceholder(matches)
           THEN [resolved |-> newId, accounts |-> Append(st.accounts, placeholderAccount),
                 error |-> NoticePlaceholder(st.bankFromUpi), placeholder |-> TRUE]
      ELSE [same(Empty) EXCEPT !.error = ErrNoAccount]

\* handleSubmit: the state the handler's setState calls leave, the ids it
\* generated, and what it did
SubmitResult(st, n) ==
  LET r == ResolveAccountId(st, generateId(AcctPrefix, n + 1))
      m == IF r.placeholder THEN n + 1 ELSE n
      resolved == [st EXCEPT !.accounts = r.accounts, !.error = r.error]
      fields(t) == [t EXCEPT !.amount = Number(st.amount), !.date = toISOString(st.date),
                             !.note = trim(st.note), !.accountId = r.resolved]
      updated == [i \in DOMAIN st.transactions |->
                    IF st.transactions[i].id = st.editingId THEN fields(st.transactions[i])
                    ELSE st.transactions[i]]
      tx == [id |-> generateId(TxnPrefix, m + 1), amount |-> Number(st.amount),
             date |-> toISOString(st.date), note |-> trim(st.note), accountId |-> r.resolved]
  IN  IF ~canSubmit(st)
      THEN [state |-> [st EXCEPT !.error = ErrRequired], ids |-> n, outcome |-> "InvalidInput",
            resolved |-> Empty, placeholder |-> FALSE]
      ELSE IF Unresolved(r.resolved)
      THEN [state |-> resolved, ids |-> n, resolved |-> Empty, placeholder |-> FALSE,
            outcome |-> IF r.error = ErrNoUpi THEN "MissingUpiHandle" ELSE "CouldNotAutoDetect"]
      ELSE IF st.editingId # Empty
      THEN [state |-> resetForm([resolved EXCEPT !.transactions = updated]), ids |-> m,
            outcome |-> "Updated", resolved |-> r.resolved, placeholder |-> r.placeholder]
      ELSE [state |-> resetForm([resolved EXCEPT !.transactions = <<tx>> \o st.transactions]),
            ids |-> m + 1, outcome |-> "Added", resolved |-> r.resolved,
            placeholder |-> r.placeholder]

\* the form is submitted
handleSubmit ==
  /\ Tick
  /\ page = "transactions"
  /\ LET r == SubmitResult(txPage, idCount)
         new == RunEffects(txPage, r.state)
         \* saveAccounts(updatedAccounts) in the handler, then the effect on [transactions]
         saved == IF r.placeholder THEN saveAccounts(localStorage, r.state.accounts)
                  ELSE localStorage
     IN  /\ r.ids <= MaxIds
         /\ txPage' = new
         /\ localStorage' = PersistTransactions(saved, txPage, new)
         /\ idCount' = r.ids
         /\ last' = [op |-> "submit", outcome |-> r.outcome, resolved |-> r.resolved,
                     placeholder |-> r.placeholder, pre |-> [txPage EXCEPT !.timers = <<>>]]
  /\ UNCHANGED <<page, acctPage>>

\* onChange of the note field: setNote
SetNote(n) ==
  /\ Tick
  /\ page = "transactions"
  /\ txPage' = RunEffects(txPage, [txPage EXCEPT !.note = n])
  /\ last' = NoSubmit
  /\ UNCHANGED <<page, localStorage, idCount, acctPage>>

\* onChange of the amount field: setAmount
SetAmount(a) ==
  /\ Tick
  /\ page = "transactions"
  /\ txPage' = [txPage EXCEPT !.amount = a]
  /\ last' = NoSubmit
  /\ UNCHANGED <<page, localStorage, idCount, acctPage>>

\* onChange of the date field: setDate
SetDate(d) ==
  /\ Tick
  /\ page = "transactions"
  /\ txPage' = [txPage EXCEPT !.date = d]
  /\ last' = NoSubmit
  /\ UNCHANGED <<page, localStorage, idCount, acctPage>>

\* the Edit button of the row of transaction i
handleEdit(i) ==
  /\ Tick
  /\ page = "transactions"
  /\ LET tx == txPage.transactions[i]
         new == [txPage EXCEPT !.editingId = tx.id, !.amount = String(tx.amount),
                               !.date = toLocalInput(tx.date), !.note = tx.note,
                               !.accountId = tx.accountId]
     IN  txPage' = RunEffects(txPage, new)
  /\ last' = NoSubmit
  /\ UNCHANGED <<page, localStorage, idCount, acctPage>>

\* the Cancel button, shown while editing: resetForm
Cancel ==
  /\ Tick
  /\ page = "transactions"
  /\ txPage.editingId # Empty
  /\ txPage' = RunEffects(txPage, resetForm(txPage))
  /\ last' = NoSubmit
  /\ UNCHANGED <<page, localStorage, idCount, acctPage>>

\* the Delete button of the row of transaction i: the removal is delayed, and
\* its callback keeps the transactions and editingId of this render
handleDelete(i) ==
  /\ Tick
  /\ page = "transactions"
  /\ Len(txPage.timers) < MaxTimers
  /\ LET id == txPage.transactions[i].id
     IN  txPage' = [txPage EXCEPT !.timers = Append(@, [id |-> id, transactions |-> txPage.transactions,
                                                        editingId |-> txPage.editingId])]
  /\ last' = NoSubmit
  /\ UNCHANGED <<page, localStorage, idCount, acctPage>>

\* the delayed removal fires
DeleteTimeout ==
  /\ Tick
  /\ page = "transactions"
  /\ txPage.timers # <<>>
  /\ LET t == Head(txPage.timers)
         next == SelectSeq(t.transactions, LAMBDA x : x.id # t.id)
         removed == [txPage EXCEPT !.transactions = next, !.timers = Tail(@)]
         new == RunEffects(txPage, IF t.editingId = t.id THEN resetForm(removed) ELSE removed)
     IN  /\ txPage' = new
         /\ localStorage' = PersistTransactions(localStorage, txPage, new)
  /\ last' = NoSubmit
  /\ UNCHANGED <<page, idCount, acctPage>>

\* ---------------------------------------------------- AccountsPage

ErrNickname == [msg |-> "Nickname is required", bank |-> Empty]

ErrMasked == [msg |-> "Masked number must be in the format ****1234", bank |-> Empty]

\* the useState initial values of AccountsPage
AcctMounted(ls) ==
  [accounts |-> ls.accounts, nickname |-> Empty, maskedNumber |-> Empty,
   editingId |-> Empty, error |-> NoError, timers |-> <<>>]

AcctUnmounted == AcctMounted([accounts |-> <<>>, transactions |-> <<>>])

\* a test without the anchor at the start: /\*{4}\d{4}$/
isValidMaskedUnanchored(maskedNumber) ==
  /\ Len(maskedNumber) >= 8
  /\ \A k \in 1..4 : maskedNumber[Len(maskedNumber) - 8 + k] = "*"
  /\ \A k \in 5..8 : maskedNumber[Len(maskedNumber) - 8 + k] \in Digits

\* /^\*{4}\d{4}$/.test(maskedNumber)
isValidMasked(maskedNumber) ==
  /\ Len(maskedNumber) = 8
  /\ \A k \in 1..4 : maskedNumber[k] = "*"
  /\ \A k \in 5..8 : maskedNumber[k] \in Digits

resetAccountForm(st) ==
  [st EXCEPT !.nickname = Empty, !.maskedNumber = Empty, !.editingId = Empty, !.error = NoError]

\* the effect on [accounts]: saveAccounts(accounts)
PersistAccounts(ls, old, new) ==
  IF new.accounts # old.accounts THEN saveAccounts(ls, new.accounts) ELSE ls

\* onChange of the nickname field
SetNickname(n) ==
  /\ Tick
  /\ page = "accounts"
  /\ acctPage' = [acctPage EXCEPT !.nickname = n]
  /\ UNCHANGED <<page, localStorage, idCount, txPage, last>>

\* onChange of the masked number field
SetMaskedNumber(m) ==
  /\ Tick
  /\ page = "accounts"
  /\ acctPage' = [acctPage EXCEPT !.maskedNumber = m]
  /\ UNCHANGED <<page, localStorage, idCount, txPage, last>>

\* AccountsPage.handleSubmit: the state it leaves and the ids generated
AccountSubmitResult(st, n) ==
  LET updated == [i \in DOMAIN st.accounts |->
                    IF st.accounts[i].id = st.editingId
                    THEN [st.accounts[i] EXCEPT !.nickname = trim(st.nickname),
                                                !.maskedNumber = st.maskedNumber]
                    ELSE st.accounts[i]]
      newAccount == [id |-> generateId(AcctPrefix, n + 1), nickname |-> trim(st.nickname),
                     maskedNumber |-> st.maskedNumber]
  IN  IF trim(st.nickname) = Empty THEN [state |-> [st EXCEPT !.error = ErrNickname], ids |-> n]
      ELSE IF ~isValidMasked(st.maskedNumber) THEN [state |-> [st EXCEPT !.error = ErrMasked], ids |-> n]
      ELSE IF st.editingId # Empty
      THEN [state |-> resetAccountForm([st EXCEPT !.accounts = updated]), ids |-> n]
      ELSE [state |-> resetAccountForm([st EXCEPT !.accounts = <<newAccount>> \o st.accounts]),
            ids |-> n + 1]

\* the accounts form is submitted
handleSubmitAccount ==
  /\ Tick
  /\ page = "accounts"
  /\ LET r == AccountSubmitResult(acctPage, idCount)
     IN  /\ r.ids <= MaxIds
         /\ acctPage' = r.state
         /\ localStorage' = PersistAccounts(localStorage, acctPage, r.state)
         /\ idCount' = r.ids
  /\ UNCHANGED <<page, txPage, last>>

\* the Edit button of the row of account i
handleEditAccount(i) ==
  /\ Tick
  /\ page = "accounts"
  /\ LET account == acctPage.accounts[i]
     IN  acctPage' = [acctPage EXCEPT !.editingId = account.id, !.nickname = account.nickname,
                                      !.maskedNumber = account.maskedNumber]
  /\ UNCHANGED <<page, localStorage, idCount, txPage, last>>

\* the Delete button of the row of account i: the removal is delayed, and its
\* callback keeps the accounts and editingId of this render
handleDeleteAccount(i) ==
  /\ Tick
  /\ page = "accounts"
  /\ Len(acctPage.timers) < MaxTimers
  /\ LET id == acctPage.accounts[i].id
     IN  acctPage' = [acctPage EXCEPT !.timers = Append(@, [id |-> id, accounts |-> acctPage.accounts,
                                                            editingId |-> acctPage.editingId])]
  /\ UNCHANGED <<page, localStorage, idCount, txPage, last>>

\* the delayed removal of an account fires
DeleteAccountTimeout ==
  /\ Tick
  /\ page = "accounts"
  /\ acctPage.timers # <<>>
  /\ LET t == Head(acctPage.timers)
         next == SelectSeq(t.accounts, LAMBDA x : x.id # t.id)
         removed == [acctPage EXCEPT !.accounts = next, !.timers = Tail(@)]
         new == IF t.editingId = t.id THEN resetAccountForm(removed) ELSE removed
     IN  /\ acctPage' = new
         /\ localStorage' = PersistAccounts(localStorage, acctPage, new)
  /\ UNCHANGED <<page, idCount, txPage, last>>

\* ------------------------------------------------------- the router

\* a navigation link: the page shown is unmounted (a timeout it left pending
\* then sets the state of an unmounted component, which does nothing) and the
\* other is mounted from the stored collections
Navigate(to) ==
  /\ Tick
  /\ to # page
  /\ page' = to
  /\ txPage' = IF to = "transactions" THEN TxMounted(localStorage) ELSE TxUnmounted
  /\ acctPage' = IF to = "accounts" THEN AcctMounted(localStorage) ELSE AcctUnmounted
  /\ last' = NoSubmit
  /\ UNCHANGED <<localStorage, idCount>>

\* ---------------------------------------------------- PluginManager

\* the plugins, in the order _initializePlugins takes them
PluginOrder == <<"tor", "fossasia", "transit">>

PluginNames == {PluginOrder[i] : i \in DOMAIN PluginOrder}

\* config.TOR_ENABLED, config.FOSSASIA_ENABLED, config.TRANSIT_ENABLED
Configs == [PluginNames -> BOOLEAN]

NoneEnabled == [n \in PluginNames |-> FALSE]

\* the components that call initialize
Callers == {"App", "PluginsPage"}

MaxCalls == 4

\* new PluginManager(): the singleton under a configuration, no call made.
\* result is what the promise of _initializePlugins settled to ("none" while
\* it runs), awaiting the plugin whose initialize it awaits (0: none);
\* runs, sets, calls, how and made are history
PluginManager(config) ==
  [config |-> config, plugins |-> {}, initialized |-> FALSE, initializationPromise |-> "null",
   awaiting |-> 0, result |-> "none", runs |-> 0, sets |-> [n \in PluginNames |-> 0],
   calls |-> [c \in Callers |-> "none"], how |-> [c \in Callers |-> "none"], made |-> 0]

\* the next enabled plugin after position k, or 0
NextEnabled(m, k) ==
  LET later == {i \in (k + 1)..Len(PluginOrder) : m.config[PluginOrder[i]]}
  IN  IF later = {} THEN 0 ELSE Min(later)

\* _initializePlugins goes on after the block of plugin k: to the next await,
\* or to its end (initialized = true; return true)
Continue(m, k) ==
  IF NextEnabled(m, k) = 0
  THEN [m EXCEPT !.awaiting = 0, !.initialized = TRUE, !.result = "true"]
  ELSE [m EXCEPT !.awaiting = NextEnabled(m, k)]

\* the call of _initializePlugins: it runs up to its first await
initializePlugins(m) == Continue([m EXCEPT !.runs = @ + 1, !.result = "none"], 0)

\* initialize with neither test: every call starts _initializePlugins
initializeEveryCall(m) ==
  [state |-> [initializePlugins(m) EXCEPT !.initializationPromise = "run"], returns |-> "promise", how |-> "started"]

\* initialize: the manager after the call, and what the call returns
initialize(m) ==
  IF m.initialized THEN [state |-> m, returns |-> "true", how |-> "initialized"]
  ELSE IF m.initializationPromise # "null"
  THEN [state |-> m, returns |-> "promise", how |-> IF m.result = "none" THEN "joined" ELSE "settled"]
  ELSE [state |-> [initializePlugins(m) EXCEPT !.initializationPromise = "run"], returns |-> "promise", how |-> "started"]

\* a component calls pluginManager.initialize() and awaits it
CallInitialize(c) ==
  /\ pm.made < MaxCalls
  /\ pm.calls[c] # "waiting"
  /\ LET r == initialize(pm)
     IN  pm' = [r.state EXCEPT !.calls[c] = IF r.returns = "true" THEN "true" ELSE "waiting",
                               !.how[c] = r.how, !.made = @ + 1]
  /\ UNCHANGED <<page, localStorage, idCount, txPage, acctPage, last, steps, scanned, probe>>

\* the awaited initialize of a plugin settles: it resolves to true or false,
\* or rejects
PluginSettles(outcome) ==
  /\ pm.awaiting # 0
  /\ LET name == PluginOrder[pm.awaiting]
     IN  pm' = CASE outcome = "true" ->
                      Continue([pm EXCEPT !.plugins = @ \cup {name}, !.sets[name] = @ + 1], pm.awaiting)
                 [] outcome = "false" -> Continue(pm, pm.awaiting)
                 [] outcome = "throws" -> [pm EXCEPT !.awaiting = 0, !.result = "false"]
  /\ UNCHANGED <<page, localStorage, idCount, txPage, acctPage, last, steps, scanned, probe>>

\* the await of a caller resumes once the promise has settled
Resume(c) ==
  /\ pm.calls[c] = "waiting"
  /\ pm.result # "none"
  /\ pm' = [pm EXCEPT !.calls[c] = pm.result]
  /\ UNCHANGED <<page, localStorage, idCount, txPage, acctPage, last, steps, scanned, probe>>

Init ==
  /\ page = "transactions"
  /\ \E stored \in StoredAtStart : localStorage = [accounts |-> stored, transactions |-> <<>>]
  /\ idCount = 0
  /\ txPage = TxMounted(localStorage)
  /\ acctPage = AcctUnmounted
  /\ last = NoSubmit
  /\ steps = 0
  /\ scanned = ScanTable
  /\ probe = NoProbe
  /\ pm = PluginManager(NoneEnabled)

Next ==
  \/ handleSubmit
  \/ \E n \in NoteInputs : SetNote(n)
  \/ \E a \in {<<"1","0","0">>} : SetAmount(a)
  \/ \E d \in {Now} : SetDate(d)
  \/ \E i \in DOMAIN txPage.transactions : handleEdit(i)
  \/ Cancel
  \/ \E i \in DOMAIN txPage.transactions : handleDelete(i)
  \/ DeleteTimeout
  \/ \E n \in {NickHdfcSavings, NickHdfcCurrent} : SetNickname(n)
  \/ \E m \in {Masked1111, Masked2222} : SetMaskedNumber(m)
  \/ handleSubmitAccount
  \/ \E i \in DOMAIN acctPage.accounts : handleEditAccount(i)
  \/ \E i \in DOMAIN acctPage.accounts : handleDeleteAccount(i)
  \/ DeleteAccountTimeout
  \/ \E to \in {"transactions", "accounts"} : Navigate(to)

Spec == Init /\ [][Next]_vars

\* the transaction form with every amount and date, and the reload of the page
NextAmounts ==
  \/ handleSubmit
  \/ \E n \in {NoteRegular, NoteAxis} : SetNote(n)
  \/ \E a \in AmountInputs : SetAmount(a)
  \/ \E d \in DateInputs : SetDate(d)
  \/ \E i \in DOMAIN txPage.transactions : handleEdit(i)
  \/ \E to \in {"transactions", "accounts"} : Navigate(to)

SpecAmounts == Init /\ [][NextAmounts]_vars

\* the accounts form with every nickname and masked number, and the
\* submissions that make placeholders
NextAccounts ==
  \/ \E n \in NicknameInputs \ {NickHdfcSavings, NickHdfcCurrent} : SetNickname(n)
  \/ \E m \in MaskedInputs \ {Masked2222} : SetMaskedNumber(m)
  \/ handleSubmitAccount
  \/ \E i \in DOMAIN acctPage.accounts : handleEditAccount(i)
  \/ \E i \in DOMAIN acctPage.accounts : handleDeleteAccount(i)
  \/ DeleteAccountTimeout
  \/ \E to \in {"transactions", "accounts"} : Navigate(to)
  \/ \E n \in {NoteAxis} : SetNote(n)
  \/ \E a \in {<<"1","0","0">>} : SetAmount(a)
  \/ handleSubmit

SpecAccounts == Init /\ [][NextAccounts]_vars

\* both pages, with no account deleted
NextKeepingAccounts ==
  \/ handleSubmit
  \/ \E n \in NoteInputs : SetNote(n)
  \/ \E a \in {<<"1","0","0">>} : SetAmount(a)
  \/ \E d \in {Now} : SetDate(d)
  \/ \E i \in DOMAIN txPage.transactions : handleEdit(i)
  \/ Cancel
  \/ \E i \in DOMAIN txPage.transactions : handleDelete(i)
  \/ DeleteTimeout
  \/ \E n \in {NickHdfcSavings, NickHdfcCurrent} : SetNickname(n)
  \/ \E m \in {Masked1111, Masked2222} : SetMaskedNumber(m)
  \/ handleSubmitAccount
  \/ \E i \in DOMAIN acctPage.accounts : handleEditAccount(i)
  \/ \E to \in {"transactions", "accounts"} : Navigate(to)

SpecKeepingAccounts == Init /\ [][NextKeepingAccounts]_vars

\* the placeholder an earlier submission made for HDFC (part_003:110-118)
PlaceholderHdfc == [id |-> <<"a","c","c","t","_","p">>, nickname |-> UnlinkedPrefix \o <<"H","D","F","C">>, maskedNumber |-> PlaceholderMasked]

\* an account the user entered with the digits of UserAccountA
UserAccountC == [id |-> <<"a","c","c","t","_","c">>, nickname |-> NickIcici, maskedNumber |-> Masked1111]

\* the account collections earlier sessions can leave in the store:
\* AccountsPage puts a new account first, a submission puts a placeholder last
StoredForSubmissions ==
  {<<>>, <<UserAccountA>>, <<PlaceholderHdfc>>, <<UserAccountA, PlaceholderHdfc>>,
   <<UserAccountA, UserAccountC>>, <<UserAccountC, UserAccountA>>,
   <<UserAccountC, UserAccountA, UserAccountB>>}

\* the transaction form alone, over every collection of StoredForSubmissions
InitSubmissions ==
  /\ page = "transactions"
  /\ \E stored \in StoredForSubmissions : localStorage = [accounts |-> stored, transactions |-> <<>>]
  /\ idCount = 0
  /\ txPage = TxMounted(localStorage)
  /\ acctPage = AcctUnmounted
  /\ last = NoSubmit
  /\ steps = 0
  /\ scanned = ScanTable
  /\ probe = NoProbe
  /\ pm = PluginManager(NoneEnabled)

NextSubmissions ==
  \/ handleSubmit
  \/ \E n \in NoteInputs : SetNote(n)
  \/ \E a \in {<<"1","0","0">>} : SetAmount(a)
  \/ \E i \in DOMAIN txPage.transactions : handleEdit(i)
  \/ Cancel

SpecSubmissions == InitSubmissions /\ [][NextSubmissions]_vars

\* the plugin manager on its own, under every configuration; the pages stay
\* as they are after construction
InitPlugins ==
  /\ page = "transactions"
  /\ localStorage = [accounts |-> <<>>, transactions |-> <<>>]
  /\ idCount = 0
  /\ txPage = TxMounted(localStorage)
  /\ acctPage = AcctUnmounted
  /\ last = NoSubmit
  /\ steps = 0
  /\ scanned = {}
  /\ probe = NoProbe
  /\ \E config \in Configs : pm = PluginManager(config)

NextPlugins ==
  \/ \E c \in Callers : CallInitialize(c)
  \/ \E outcome \in {"true", "false", "throws"} : PluginSettles(outcome)
  \/ \E c \in Callers : Resume(c)

SpecPlugins == InitPlugins /\ [][NextPlugins]_vars

\* The scanner on its own: a text is handed to one of its four functions.
\* The forms stay as they are after construction and scan nothing.
InitScanner ==
  /\ page = "transactions"
  /\ localStorage = [accounts |-> <<>>, transactions |-> <<>>]
  /\ idCount = 0
  /\ txPage = TxMounted(localStorage)
  /\ acctPage = AcctUnmounted
  /\ last = NoSubmit
  /\ steps = 0
  /\ scanned = {}
  /\ probe \in Probes
  /\ pm = PluginManager(NoneEnabled)

Idle == /\ probe.called = "none"
        /\ UNCHANGED <<page, localStorage, idCount, txPage, acctPage, last, steps, scanned, pm>>

\* the banks whose pattern the text satisfies (history)
Matching(text) == {bank \in Banks : BankMatch(bank, toLowerCase(text)) # NoMatch}

CallDetectSourceAccount ==
  /\ Idle
  /\ probe' = [probe EXCEPT !.called = "detectSourceAccountFromText",
                            !.account = detectSourceAccountFromText(probe.text),
                            !.matching = Matching(probe.text)]

CallDetectBankFromUpi ==
  /\ Idle
  /\ probe' = [probe EXCEPT !.called = "detectBankFromUpiText",
                            !.upiBank = detectBankFromUpiText(probe.text)]

CallDetectUpiHandle ==
  /\ Idle
  /\ probe' = [probe EXCEPT !.called = "detectUpiHandle",
                            !.handle = detectUpiHandle(probe.text)]

\* "#t1 #t2 ...": the tags written out again
Rejoin(tags) == Join([k \in DOMAIN tags |-> <<"#">> \o tags[k]], <<" ">>)

\* the tags of the text, of the same text once more, and of the tags written
\* out again
CallExtractHashtags ==
  /\ Idle
  /\ LET tags == extractHashtags(probe.text)
     IN  probe' = [probe EXCEPT !.called = "extractHashtags",
                                !.tags = tags,
                                !.again = extractHashtags(probe.text),
                                !.rejoined = extractHashtags(Rejoin(tags))]

NextScanner ==
  \/ CallDetectSourceAccount
  \/ CallDetectBankFromUpi
  \/ CallDetectUpiHandle
  \/ CallExtractHashtags

SpecScanner == InitScanner /\ [][NextScanner]_vars

\* ------------------------------------------------------- properties
\* last records the latest submission of the transaction form: in a state where
\* last.op = "submit", last.pre is the form the submission read and txPage,
\* localStorage are what it left.

Pre == last.pre

Submitted == last.op = "submit"

Committed == Submitted /\ last.outcome \in {"Added", "Updated"}

\* the form edits no transaction: it offers no account selector, so the user
\* has chosen no account
CreateMode == Pre.editingId = Empty

Ids(accounts) == {accounts[i].id : i \in DOMAIN accounts}

\* the first account whose maskedNumber ends with the suffix read in the note, or 0
SuffixAccount(st) ==
  LET hit == SourceAccountOf(st.note)
  IN  IF hit.last4 # Empty THEN FindBySuffix(st.accounts, hit.last4) ELSE 0

\* the bank name read in the UPI handle of the note, or Empty
DetectedBank(st) ==
  LET b == BankFromUpiOf(st.note)
  IN  IF b = NoBank THEN Empty ELSE BankText(b.name)

\* the submission left both collections, in memory and stored, as they were
NothingCommitted ==
  /\ txPage.transactions = Pre.transactions
  /\ localStorage.transactions = JsonTransactions(Pre.transactions)
  /\ txPage.accounts = Pre.accounts
  /\ localStorage.accounts = Pre.accounts

\* the transactions the latest submission created or updated
Touched ==
  IF last.outcome = "Added" THEN {1}
  ELSE {i \in DOMAIN txPage.transactions : txPage.transactions[i].id = Pre.editingId}

\* C1: every transaction a submission creates or updates carries the id of an
\* account that is in the account collection when the submission commits.
C1_AccountPresentAtCommit ==
  Committed =>
    \A i \in Touched : txPage.transactions[i].accountId \in Ids(txPage.accounts)

\* C2: in every reachable state every transaction, in memory and stored, has
\* a non-empty accountId.
C2_NoTransactionWithoutAccount ==
  /\ \A i \in DOMAIN txPage.transactions : txPage.transactions[i].accountId # Empty
  /\ \A i \in DOMAIN localStorage.transactions : localStorage.transactions[i].accountId # Empty

\* a submission failed while transactions were already committed
C2_Witness ==
  /\ Submitted
  /\ last.outcome \in {"MissingUpiHandle", "CouldNotAutoDetect"}
  /\ localStorage.transactions # <<>>

C4_MissingUpiHandle ==
  (Submitted /\ canSubmit(Pre) /\ CreateMode /\ UpiHandleOf(Pre.note) = Empty) =>
    /\ last.outcome = "MissingUpiHandle"
    /\ txPage.error = ErrNoUpi
    /\ NothingCommitted

\* C5: with no account chosen and a UPI handle in the note, when the suffix read
\* in the note ends the maskedNumber of an account, the submission resolves to
\* that account and creates no placeholder, whatever the bank signal.
C5_SuffixMatchWins ==
  (Submitted /\ canSubmit(Pre) /\ CreateMode /\ UpiHandleOf(Pre.note) # Empty
     /\ SuffixAccount(Pre) # 0) =>
    /\ last.outcome = "Added"
    /\ last.resolved = Pre.accounts[SuffixAccount(Pre)].id
    /\ Head(txPage.transactions).accountId = Pre.accounts[SuffixAccount(Pre)].id
    /\ ~last.placeholder
    /\ txPage.accounts = Pre.accounts

\* C6: with no account chosen, a UPI handle, no suffix match, a detected bank B
\* and no account whose nickname contains B, the submission appends exactly one
\* account {fresh id, "Unlinked - " + B, "****0000"} after the existing ones and
\* commits the transaction with the new account's id.
C6_PlaceholderForUnknownBank ==
  (Submitted /\ canSubmit(Pre) /\ CreateMode /\ UpiHandleOf(Pre.note) # Empty
     /\ SuffixAccount(Pre) = 0 /\ DetectedBank(Pre) # Empty
     /\ BankMatches(Pre.accounts, DetectedBank(Pre)) = {}) =>
    /\ last.outcome = "Added"
    /\ last.placeholder
    /\ last.resolved \notin Ids(Pre.accounts)
    /\ txPage.accounts =
         Append(Pre.accounts, [id |-> last.resolved,
                               nickname |-> UnlinkedPrefix \o DetectedBank(Pre),
                               maskedNumber |-> PlaceholderMasked])
    /\ localStorage.accounts = txPage.accounts
    /\ Head(txPage.transactions).accountId = last.resolved

\* C7: with no account chosen, a UPI handle, no suffix match and a detected
\* bank contained in the nicknames of two or more accounts, the submission
\* fails with an outcome of its own, which is not the one a note without any
\* bank or suffix gets (ErrNoAccount), and commits nothing.
C7_AmbiguousBankMatch ==
  (Submitted /\ canSubmit(Pre) /\ CreateMode /\ UpiHandleOf(Pre.note) # Empty
     /\ SuffixAccount(Pre) = 0 /\ DetectedBank(Pre) # Empty
     /\ Cardinality(BankMatches(Pre.accounts, DetectedBank(Pre))) >= 2) =>
    /\ ~Committed
    /\ txPage.error \notin {NoError, ErrNoUpi, ErrNoAccount}
    /\ NothingCommitted

\* C8: with no account chosen, a UPI handle, no suffix match and a detected
\* bank contained in the nickname of exactly one account, the submission
\* commits with that account's id and creates no placeholder.
C8_SingleBankMatch ==
  (Submitted /\ canSubmit(Pre) /\ CreateMode /\ UpiHandleOf(Pre.note) # Empty
     /\ SuffixAccount(Pre) = 0 /\ DetectedBank(Pre) # Empty
     /\ Cardinality(BankMatches(Pre.accounts, DetectedBank(Pre))) = 1) =>
    LET m == CHOOSE a \in BankMatches(Pre.accounts, DetectedBank(Pre)) : TRUE
    IN  /\ last.outcome = "Added"
        /\ last.resolved = Pre.accounts[m].id
        /\ Head(txPage.transactions).accountId = Pre.accounts[m].id
        /\ ~last.placeholder
        /\ txPage.accounts = Pre.accounts

\* C9: with no account chosen, a submission whose note yields neither a bank
\* nor a suffix fails with UnresolvableAccount (ErrNoAccount) and commits
\* nothing; "Just a regular note" is such a note.
C9_UnresolvableAccount ==
  (Submitted /\ canSubmit(Pre) /\ CreateMode /\ DetectedBank(Pre) = Empty
     /\ SourceAccountOf(Pre.note).last4 = Empty) =>
    /\ last.outcome = "CouldNotAutoDetect"
    /\ txPage.error = ErrNoAccount
    /\ NothingCommitted

\* the zero-match branch of handleSubmit: nothing resolved the account and no
\* nickname contains the detected bank
ZeroMatchBranch(st) ==
  /\ canSubmit(st)
  /\ st.accountId = Empty
  /\ UpiHandleOf(st.note) # Empty
  /\ SuffixAccount(st) = 0
  /\ st.bankFromUpi # Empty
  /\ BankMatches(st.accounts, st.bankFromUpi) = {}

C10_Step ==
  /\ handleSubmit =>
       IF ZeroMatchBranch(txPage)
       THEN /\ Len(txPage'.accounts) = Len(txPage.accounts) + 1
            /\ SubSeq(txPage'.accounts, 1, Len(txPage.accounts)) = txPage.accounts
            /\ localStorage'.accounts = txPage'.accounts
       ELSE /\ txPage'.accounts = txPage.accounts
            /\ localStorage'.accounts = localStorage.accounts
  /\ (\E n \in NoteInputs : SetNote(n)) =>
       /\ txPage'.accounts = txPage.accounts
       /\ localStorage'.accounts = localStorage.accounts

\* C10: a submission adds one account in the zero-match branch of bank
\* resolution and leaves the accounts unchanged in every other case; changing
\* the note without submitting never adds an account.
C10_OnePlaceholderPerSubmission == [][C10_Step]_vars

\* a submission added a placeholder to a collection that held accounts
C10_Witness ==
  /\ Submitted
  /\ last.placeholder
  /\ Len(txPage.accounts) = Len(Pre.accounts) + 1
  /\ Pre.accounts # <<>>

\* C11: after a submission that creates a placeholder, the state it leaves
\* shows the notice naming the placeholder's bank, and the transaction is
\* committed.
C11_PlaceholderNoticeShown ==
  (Submitted /\ last.placeholder) =>
    /\ last.outcome = "Added"
    /\ Head(txPage.transactions).accountId = last.resolved
    /\ txPage.error = NoticePlaceholder(Pre.bankFromUpi)

\* the amount is a decimal literal greater than zero
PositiveDecimal(text) ==
  trim(text) # Empty /\ Number(text).kind = "number" /\ Number(text).value > 0

PositiveAmounts(transactions) ==
  \A i \in DOMAIN transactions :
    transactions[i].amount.kind = "number" /\ transactions[i].amount.value > 0

\* C12: a submission whose amount is empty, not a number, zero or negative, or
\* whose date is absent, is rejected and changes neither collection; so every
\* committed transaction, in memory and stored, has an amount greater than zero.
C12_InvalidInputRejected ==
  /\ (Submitted /\ (~PositiveDecimal(Pre.amount) \/ Pre.date = "")) =>
       /\ last.outcome = "InvalidInput"
       /\ NothingCommitted
  /\ PositiveAmounts(txPage.transactions)
  /\ PositiveAmounts(localStorage.transactions)

\* four '*' followed by four digits, and nothing else
FourStarsFourDigits(text) ==
  /\ Len(text) = 8
  /\ \A k \in 1..4 : text[k] = "*"
  /\ \A k \in 5..8 : text[k] \in {"0","1","2","3","4","5","6","7","8","9"}

WellFormed(accounts) ==
  \A i \in DOMAIN accounts :
    accounts[i].nickname # Empty /\ FourStarsFourDigits(accounts[i].maskedNumber)

C13_Step ==
  /\ WellFormed(localStorage.accounts) /\ WellFormed(localStorage'.accounts)
  /\ WellFormed(txPage.accounts) /\ WellFormed(txPage'.accounts)
  /\ WellFormed(acctPage.accounts) /\ WellFormed(acctPage'.accounts)
  /\ (handleSubmitAccount /\ (trim(acctPage.nickname) = Empty
                               \/ ~FourStarsFourDigits(acctPage.maskedNumber))) =>
       /\ acctPage'.accounts = acctPage.accounts
       /\ localStorage' = localStorage
       /\ acctPage'.error \in {ErrNickname, ErrMasked}
  /\ (handleSubmit /\ Len(txPage'.accounts) > Len(txPage.accounts)) =>
       txPage'.accounts[Len(txPage'.accounts)].maskedNumber = <<"*","*","*","*","0","0","0","0">>

\* C13: every account, in memory and stored, has a non-empty nickname and a
\* maskedNumber of four '*' and four digits; the accounts form rejects an entry
\* that breaks the format without changing the collection; a placeholder is
\* created with "****0000".
C13_AccountsWellFormed == [][C13_Step]_vars

\* the accounts form rejected a masked number while accounts were stored
C13_Witness ==
  /\ page = "accounts"
  /\ acctPage.error = ErrMasked
  /\ ~FourStarsFourDigits(acctPage.maskedNumber)
  /\ \E i \in DOMAIN localStorage.accounts :
       localStorage.accounts[i].maskedNumber = <<"*","*","*","*","0","0","0","0">>

C14_Step ==
  /\ (\E n \in NoteInputs : SetNote(n)) =>
       /\ txPage'.accounts = txPage.accounts
       /\ txPage'.transactions = txPage.transactions
       /\ localStorage' = localStorage
  /\ localStorage' # localStorage =>
       handleSubmit \/ DeleteTimeout \/ handleSubmitAccount \/ DeleteAccountTimeout

\* C14: changing the note without submitting leaves the accounts and the
\* transactions, in memory and stored, as they are; the stored collections
\* change only in a submission or in a delete the user asked for.
C14_NoteChangeHasNoSideEffect == [][C14_Step]_vars

\* a note naming a bank no account carries is in the form, after a transaction
\* was stored, and no account was added for it
C14_Witness ==
  /\ page = "transactions"
  /\ last = NoSubmit
  /\ txPage.note = NoteAxis
  /\ txPage.bankFromUpi # Empty
  /\ BankMatches(txPage.accounts, txPage.bankFromUpi) = {}
  /\ txPage.accounts = localStorage.accounts
  /\ localStorage.transactions # <<>>

\* ---- the scanner on its own (SpecScanner)

Called(fn) == probe.called = fn

\* C15: every scanner call returns a value; a bank signal that is not null has
\* a code that is a key of the handle map and the name the map gives that
\* key; an account signal that is not null has a bank of the bank-pattern
\* table or UNKNOWN.
C15_ScannerReturnsDeclaredValues ==
  /\ Called("detectBankFromUpiText") /\ probe.upiBank # NoBank =>
       \E k \in DOMAIN HandleKeys : /\ probe.upiBank.code = HandleKeys[k]
                                    /\ probe.upiBank.name = HandleNames[k]
  /\ Called("detectSourceAccountFromText") /\ probe.account # NoHit =>
       probe.account.bank \in Banks \cup {"UNKNOWN"}
  /\ Called("detectUpiHandle") => probe.handle = Empty \/ includes(probe.handle, <<"@">>)
  /\ Called("extractHashtags") => \A k \in DOMAIN probe.tags : probe.tags[k] # Empty

\* C16: a note with the brand of bank B (and of no other bank), then an
\* account/card/UPI keyword, then a 4-digit suffix makes
\* detectSourceAccountFromText return {bank: B, last4: the suffix}, for every
\* bank of the table; the last4 is the suffix, never the brand and never null.
C16_BankAndSuffixDetected ==
  Called("detectSourceAccountFromText") /\ probe.kind = "bank" =>
    probe.account = [bank |-> probe.bank, last4 |-> probe.suffix]

\* a note whose brand the pattern captures as its first group
C16_Witness ==
  /\ Called("detectSourceAccountFromText")
  /\ probe.kind = "bank"
  /\ BrandIsGroup(probe.bank)
  /\ probe.account.last4 = probe.suffix

\* C17: when a note satisfies the patterns of two or more banks,
\* detectSourceAccountFromText returns the one declared earliest, in the order
\* SBI, HDFC, ICICI, AXIS, KOTAK, YES, PNB, BOB, CANARA, UNION, wherever the
\* brands stand in the note.
C17_EarliestDeclaredBankWins ==
  LET declared == <<"SBI", "HDFC", "ICICI", "AXIS", "KOTAK", "YES", "PNB", "BOB", "CANARA", "UNION">>
      place(bank) == CHOOSE i \in DOMAIN declared : declared[i] = bank
  IN  /\ Called("detectSourceAccountFromText") /\ probe.kind = "two" /\ probe.bank # probe.other =>
           /\ {probe.bank, probe.other} \subseteq probe.matching
           /\ probe.account.bank = (IF place(probe.bank) < place(probe.other) THEN probe.bank ELSE probe.other)
      /\ Called("detectSourceAccountFromText") /\ Cardinality(probe.matching) >= 2 =>
           /\ probe.account.bank \in probe.matching
           /\ \A bank \in probe.matching : place(probe.account.bank) <= place(bank)

\* the brand of the bank declared last stands first in the note
C17_Witness ==
  /\ Called("detectSourceAccountFromText")
  /\ probe.kind = "two"
  /\ probe.bank = "UNION"
  /\ probe.other = "SBI"
  /\ probe.matching = {"UNION", "SBI"}
  /\ probe.account.bank = "SBI"

\* C18 (as stated): for any note with no bank token but an account/card/UPI
\* keyword followed by a 4-digit suffix, detectSourceAccountFromText returns
\* {bank: UNKNOWN, last4: the suffix}; whenever a bank pattern matches, the
\* result is never UNKNOWN.
C18_GenericFallbackAnyDistance ==
  /\ Called("detectSourceAccountFromText") /\ probe.kind = "generic" =>
       probe.account = [bank |-> "UNKNOWN", last4 |-> probe.suffix]
  /\ Called("detectSourceAccountFromText") /\ probe.matching # {} =>
       probe.account.bank # "UNKNOWN"

\* C18 (amended): the generic pattern reaches GenericGap characters past the
\* keyword (and a mask of up to GenericMask stars or x after them). A note
\* with no bank token and a keyword followed within that window by a 4-digit
\* suffix gives {bank: UNKNOWN, last4: the suffix}; with the suffix further
\* away it gives null; whenever a bank pattern matches, the result is never
\* UNKNOWN.
C18_GenericFallbackWithinWindow ==
  /\ Called("detectSourceAccountFromText") /\ probe.kind = "generic" /\ probe.gap <= GenericGap =>
       probe.account = [bank |-> "UNKNOWN", last4 |-> probe.suffix]
  /\ Called("detectSourceAccountFromText") /\ probe.kind = "generic" /\ probe.gap > GenericGap =>
       probe.account = NoHit
  /\ Called("detectSourceAccountFromText") /\ probe.matching # {} =>
       probe.account.bank # "UNKNOWN"

\* a suffix at the edge of the window, behind the longest mask
C18_Witness ==
  /\ Called("detectSourceAccountFromText")
  /\ probe.kind = "generic"
  /\ probe.gap = GenericGap
  /\ includes(probe.text, [i \in 1..GenericMask |-> "x"])
  /\ probe.account = [bank |-> "UNKNOWN", last4 |-> probe.suffix]

\* a text with no bank token, no account/card/UPI keyword together with
\* digits, no key of the handle map and no '@'
SignalFree(text) ==
  LET low == toLowerCase(text)
  IN  /\ \A bank \in Banks : \A brand \in BrandTexts(bank) : ~includes(low, toLowerCase(brand))
      /\ ~(/\ \E w \in DOMAIN GenericKeywords : includes(low, GenericKeywords[w])
           /\ \E i \in DOMAIN low : low[i] \in Digits)
      /\ \A k \in DOMAIN HandleKeys : ~includes(low, HandleKeys[k])
      /\ ~includes(low, <<"@">>)

\* C19: for the empty string and for every text with no bank token, no
\* account/card/UPI keyword with digits, no handle-map key and no '@',
\* detectSourceAccountFromText, detectBankFromUpiText and detectUpiHandle
\* return null; user@unknownbank gives no bank signal.
C19_NoSignalFromSignalFreeText ==
  /\ SignalFree(probe.text) =>
       /\ Called("detectSourceAccountFromText") => probe.account = NoHit
       /\ Called("detectBankFromUpiText") => probe.upiBank = NoBank
       /\ Called("detectUpiHandle") => probe.handle = Empty
  /\ probe.text = NoteUnknownBank /\ Called("detectBankFromUpiText") => probe.upiBank = NoBank

\* C20: extractHashtags returns each #token (2 to 32 characters of letters,
\* digits, ':', '_', '-') in lower case, without duplicates, in the order of
\* first occurrence; a second call on the same text returns the same list, and
\* so does a call on the tags written out as "#t1 #t2 ..."; the tags of
\* "#Food #food" are ["food"].
C20_HashtagsLowerUniqueStable ==
  LET text == probe.text
      tags == probe.tags
      starts == {i \in DOMAIN text : text[i] = "#" /\ TagRun(text, i + 1) >= 2}
      token(i) == toLowerCase(SubSeq(text, i + 1, i + Min({TagRun(text, i + 1), 32})))
      first(tag) == Min({i \in starts : token(i) = tag})
  IN  Called("extractHashtags") =>
        /\ \A k \in DOMAIN tags :
             /\ Len(tags[k]) \in 2..32
             /\ \A c \in DOMAIN tags[k] : tags[k][c] \in LowerLetters \cup Digits \cup {":", "_", "-"}
        /\ \A j, k \in DOMAIN tags : j # k => tags[j] # tags[k]
        /\ {tags[k] : k \in DOMAIN tags} = {token(i) : i \in starts}
        /\ \A j, k \in DOMAIN tags : j < k => first(tags[j]) < first(tags[k])
        /\ probe.again = tags
        /\ probe.rejoined = tags
        /\ text = <<"#","F","o","o","d"," ","#","f","o","o","d">> => tags = << <<"f","o","o","d">> >>

\* two tokens that differ in case only, with nothing between them
C20_Witness ==
  /\ Called("extractHashtags")
  /\ probe.text = <<"#","F","o","o","d","#","F","O","O","D">>
  /\ probe.tags = << <<"f","o","o","d">> >>
  /\ probe.rejoined = probe.tags

\* C21: detectBankFromUpiText gives a whole-token match precedence over any
\* substring match: if a token of the lower-cased note equals a handle-map
\* key, the result is such a token with the bank the map gives it; only when
\* no token equals a key is it the first key, in key order, that the note
\* contains; otherwise it is null.
C21_WholeTokenBeforeSubstring ==
  LET low == toLowerCase(probe.text)
      tokens == Tokens(low)
      keyTokens == {n \in DOMAIN tokens : HandleIndex(tokens[n]) # 0}
      contained == {k \in DOMAIN HandleKeys : includes(low, HandleKeys[k])}
  IN  Called("detectBankFromUpiText") =>
        IF keyTokens # {}
        THEN \E n \in keyTokens : probe.upiBank = [code |-> tokens[n], name |-> HandleNames[HandleIndex(tokens[n])]]
        ELSE IF contained # {}
        THEN probe.upiBank = [code |-> HandleKeys[Min(contained)], name |-> HandleNames[Min(contained)]]
        ELSE probe.upiBank = NoBank

\* ---- the transaction form again (Spec)

\* the "Detected Account" the form displays: the account found by the suffix,
\* or else the only account that names the detected bank; Empty when none
DetectedAccount(st) ==
  LET a == IF st.autoDetected.last4 # Empty THEN FindBySuffix(st.accounts, st.autoDetected.last4) ELSE 0
      bankMatches == IF st.bankFromUpi # Empty THEN BankMatches(st.accounts, st.bankFromUpi) ELSE {}
  IN  IF a # 0 THEN st.accounts[a].id
      ELSE IF Cardinality(bankMatches) = 1 THEN st.accounts[CHOOSE m \in bankMatches : TRUE].id
      ELSE Empty

\* a form session that starts on the same collections and in which the same
\* amount, date and note are typed, and nothing else
FreshSession(st) ==
  AutoDetect([TxMounted([accounts |-> st.accounts, transactions |-> st.transactions])
                EXCEPT !.amount = st.amount, !.date = st.date, !.note = st.note])

\* C22: in create mode the outcome of a submission (the committed account id,
\* the failure, or the placeholder) depends only on the note at submission
\* time and the account collection: it is the outcome of a session in which
\* only that note was typed, whatever was typed and replaced before; and the
\* committed account is the one displayed as detected.
C22_OutcomeDependsOnFinalNoteOnly ==
  LET fresh == SubmitResult(FreshSession(Pre), 0)
  IN  (Submitted /\ canSubmit(Pre) /\ CreateMode) =>
        /\ last.outcome = fresh.outcome
        /\ last.placeholder = fresh.placeholder
        /\ ~last.placeholder => last.resolved = fresh.resolved
        /\ (Committed /\ ~last.placeholder) => last.resolved = DetectedAccount(Pre)

\* ---- both pages with no account deleted (SpecKeepingAccounts)

FailedResolution == Submitted /\ last.outcome \in {"MissingUpiHandle", "CouldNotAutoDetect"}

\* C24: a submission that fails resolution leaves both collections unchanged
\* and keeps the form's amount, date, note and edit target; the failure is not
\* sticky: a later submission, made while the error of the failed one is still
\* shown, whose note resolves commits, and commits what a session with that
\* note alone commits when the form holds no account of an older note.
C24_FailureIsRecoverable ==
  LET fresh == SubmitResult(FreshSession(Pre), 0)
  IN  /\ FailedResolution =>
           /\ NothingCommitted
           /\ txPage.amount = Pre.amount
           /\ txPage.date = Pre.date
           /\ txPage.note = Pre.note
           /\ txPage.editingId = Pre.editingId
      /\ (Submitted /\ CreateMode /\ Pre.error \in {ErrNoUpi, ErrNoAccount}
            /\ fresh.outcome = "Added") =>
           /\ last.outcome = "Added"
           /\ Pre.accountId = FreshSession(Pre).accountId =>
                /\ last.placeholder = fresh.placeholder
                /\ ~last.placeholder => last.resolved = fresh.resolved

\* after a failed submission the note was corrected and the next submission
\* made a placeholder and committed
C24_Witness ==
  /\ Submitted
  /\ CreateMode
  /\ Pre.error = ErrNoUpi
  /\ last.outcome = "Added"
  /\ last.placeholder
  /\ txPage.error = NoError

\* the accounts of st, by index, that a submission made for a detected bank
Placeholders(st, bank) == {a \in DOMAIN st.accounts : st.accounts[a].nickname = UnlinkedPrefix \o bank}

\* the accounts of st, by index, that name the bank and were entered by the user
UserNamed(st, bank) ==
  {a \in DOMAIN st.accounts :
     /\ includes(toLowerCase(st.accounts[a].nickname), toLowerCase(bank))
     /\ st.accounts[a].nickname # UnlinkedPrefix \o bank}

\* C25: the candidates for a detected bank are the accounts whose nickname
\* contains it ignoring case, placeholders included: with a user account
\* naming the bank and its placeholder both present, a create-mode submission
\* whose note has a UPI handle of that bank and no matching suffix is resolved
\* to neither, and commits nothing.
C25_PlaceholderCountsAsCandidate ==
  (Submitted /\ canSubmit(Pre) /\ CreateMode /\ UpiHandleOf(Pre.note) # Empty
     /\ SuffixAccount(Pre) = 0 /\ DetectedBank(Pre) # Empty
     /\ UserNamed(Pre, DetectedBank(Pre)) # {}
     /\ Placeholders(Pre, DetectedBank(Pre)) # {}) =>
    /\ last.outcome = "CouldNotAutoDetect"
    /\ NothingCommitted

\* the bank names a placeholder can carry
BankNames == {BankText(HandleNames[i]) : i \in DOMAIN HandleNames}

\* C26: with the transaction form alone (no account edited or deleted), the
\* account collection holds at most one placeholder per bank name, and a
\* create-mode submission whose note detects a bank that only its placeholder
\* names, with no matching suffix, commits with that placeholder and adds no
\* account.
C26_OnePlaceholderPerBank ==
  /\ \A bank \in BankNames : Cardinality(Placeholders(txPage, bank)) <= 1
  /\ (Submitted /\ canSubmit(Pre) /\ CreateMode /\ UpiHandleOf(Pre.note) # Empty
        /\ SuffixAccount(Pre) = 0 /\ DetectedBank(Pre) # Empty
        /\ UserNamed(Pre, DetectedBank(Pre)) = {}
        /\ Placeholders(Pre, DetectedBank(Pre)) # {}) =>
       /\ last.outcome = "Added"
       /\ \E p \in Placeholders(Pre, DetectedBank(Pre)) : last.resolved = Pre.accounts[p].id
       /\ ~last.placeholder
       /\ txPage.accounts = Pre.accounts

\* the rows of a transaction list that carry the id
RowsOf(transactions, id) == {i \in DOMAIN transactions : transactions[i].id = id}

\* C27: a submission that reports an update changed exactly the transaction
\* whose id is the edit target (same id, same number and order of
\* transactions, every other transaction as it was), and whenever the form is
\* in edit mode the edit target is the id of a transaction in the list.
C27_EditChangesExactlyTheTarget ==
  /\ (Submitted /\ last.outcome = "Updated") =>
       /\ Cardinality(RowsOf(Pre.transactions, Pre.editingId)) = 1
       /\ Len(txPage.transactions) = Len(Pre.transactions)
       /\ \A i \in DOMAIN Pre.transactions :
            /\ txPage.transactions[i].id = Pre.transactions[i].id
            /\ i \notin RowsOf(Pre.transactions, Pre.editingId) =>
                 txPage.transactions[i] = Pre.transactions[i]
  /\ (page = "transactions" /\ txPage.editingId # Empty) =>
       RowsOf(txPage.transactions, txPage.editingId) # {}

\* a delayed removal fires in this step: the oldest timer leaves the queue
\* of the mounted page
RemovalFires == page = "transactions" /\ page' = page /\ txPage.timers # <<>> /\ txPage'.timers = Tail(txPage.timers)

\* C28: when the delayed removal of transaction X fires, the list becomes the
\* list just before it fired without X: nothing else is lost, whatever was
\* added, edited or deleted during the delay.
C28_DeleteRemovesOnlyX ==
  [][RemovalFires =>
       txPage'.transactions = SelectSeq(txPage.transactions, LAMBDA x : x.id # Head(txPage.timers).id)]_vars

\* the accounts of st, by index, whose maskedNumber ends with the suffix read
\* in the note
SuffixHits(st) ==
  LET hit == SourceAccountOf(st.note)
  IN  IF hit.last4 = Empty THEN {}
      ELSE {a \in DOMAIN st.accounts : endsWith(st.accounts[a].maskedNumber, hit.last4)}

\* C29: when the maskedNumber of two or more accounts ends with the suffix
\* read in the note, a create-mode submission (with a UPI handle) commits with
\* the first of them in collection order, reports no error and adds no
\* account, whichever bank the note names.
C29_FirstSuffixMatchWins ==
  (Submitted /\ canSubmit(Pre) /\ CreateMode /\ UpiHandleOf(Pre.note) # Empty
     /\ Cardinality(SuffixHits(Pre)) >= 2) =>
    /\ last.outcome = "Added"
    /\ last.resolved = Pre.accounts[Min(SuffixHits(Pre))].id
    /\ ~last.placeholder
    /\ txPage.error = NoError
    /\ txPage.accounts = Pre.accounts

\* C30: _initializePlugins is started at most once; every call of initialize
\* that has resolved resolved to the result of that one run; no plugin is
\* registered twice; and initialized, once true, stays true.
C30_InitializeRunsOnce ==
  /\ [](/\ pm.runs <= 1
        /\ \A c \in Callers : pm.calls[c] \in {"true", "false"} => (pm.runs = 1 /\ pm.calls[c] = pm.result)
        /\ \A n \in PluginNames : pm.sets[n] <= 1)
  /\ [][pm.initialized => pm'.initialized]_vars

\* a second call made while the run was awaiting a plugin resolved, like the
\* first, to true, with a plugin registered
C30_Witness ==
  /\ \E c \in Callers : pm.how[c] = "started" /\ pm.calls[c] = "true"
  /\ \E c \in Callers : pm.how[c] = "joined" /\ pm.calls[c] = "true"
  /\ pm.runs = 1 /\ pm.initialized /\ pm.plugins # {}

====
